---- MODULE Spec2Model ----
(***************************************************************************)
(* Model of the brigadier-rs command tree (src/src/tree.rs) and of the     *)
(* argument builders (src/src/builder.rs, builder/literal.rs,              *)
(* builder/required.rs).                                                   *)
(*                                                                         *)
(* NodeId keys of the SlotMap are modelled as the naturals 1, 2, ... in    *)
(* allocation order: a SlotMap key is (slot, version) and is never handed  *)
(* out twice, so a removed key stays invalid for ever.  0 stands for the   *)
(* null key and for Option::None.                                          *)
(*                                                                         *)
(* A panic ends the run: panicked records its place, the tree keeps what   *)
(* the code had written before the panic, and no further call is made.     *)
(*                                                                         *)
(* The StringReader (src/src/string_reader.rs), the numeric argument type  *)
(* (src/src/arguments.rs) and the rendering of errors (src/src/errors.rs)  *)
(* follow the tree; they have specifications of their own, SpecReader and  *)
(* SpecError, over their own variables; so do the suggestions              *)
(* (src/src/suggestion.rs), with SpecSuggest.                              *)
(***************************************************************************)
EXTENDS Integers, Sequences, FiniteSets, TLC

\* ------------------------------------------------------------------ bounds

\* Largest number of NodeIds the SlotMap ever hands out (the root included).
MaxNodes == 4

\* Largest number of pending children of one builder.
MaxPending == 2

\* Largest number of builders alive at once (then_build nests them).
MaxDepth == 2

\* The tagged kinds and names the builders are created with.
Tagged == {<<"Literal", "a">>, <<"Literal", "b">>, <<"Argument", "a">>}

\* The tagged kinds and names of the nodes inserted with a command.
TaggedWithCommand == {<<"Literal", "a">>}

\* The (modifier, fork) pairs handed to forward: fork(target, Some(1)).
\* Modifier 0 is None.
Forwards == {<<1, TRUE>>}

Ids == 1..MaxNodes

VARIABLES
    nodes,      \* TreeGraph.nodes: the SlotMap, a function live NodeId -> CommandNode
    root,       \* TreeGraph.root
    nextId,     \* the next key the SlotMap hands out
    builders,   \* the stack of live ArgumentBuilders (innermost last)
    panicked,   \* "none", or the place of the panic that ended the run
    merged      \* <<parent_id, node_id>> when the last call was an add_child that
                \* found a child to merge onto, <<>> after every other call

\* The variables of the StringReader and of the error rendering: the tree
\* leaves them alone.
VARIABLES
    input,      \* StringReader.input, a sequence of characters
    remaining,  \* StringReader.remaining
    last,       \* the last call on the reader: its name, remaining before it, its result
    shown       \* the last error rendered, with what context() and Display gave

\* The variables of the suggestions: a command line, the candidates
\* collected for it, and what Suggestions::create and Suggestion::apply made of them.
VARIABLES
    line,       \* the command text, a sequence of characters
    candidates, \* the Vec of Suggestions handed to create (SuggestionsBuilder.result)
    created,    \* the outcome of Suggestions::create(line, candidates)
    recreated,  \* the outcome of create on the suggestions of created
    applied     \* the last call of apply: the suggestion and its outcome

treeVars == <<nodes, root, nextId, builders, panicked, merged>>

suggestVars == <<line, candidates, created, recreated, applied>>

readerVars == <<input, remaining, last>>

vars == <<nodes, root, nextId, builders, panicked, merged, input, remaining, last, shown,
          line, candidates, created, recreated, applied>>

\* No reader has been made, no error rendered.
ReaderIdle == input = <<>> /\ remaining = <<>> /\ last = <<>>

ErrorIdle == shown = <<>>

\* No suggestion has been made.
SuggestIdle ==
    /\ line = <<>>
    /\ candidates = <<>>
    /\ created = <<>>
    /\ recreated = <<>>
    /\ applied = <<>>

\* ---------------------------------------------------------------- IndexMap

\* An IndexMap<String, NodeId> is the sequence of its <<key, value>> entries
\* in insertion order.
IndexMapKeys(m) == {m[i][1] : i \in 1..Len(m)}

IndexMapGet(m, k) ==
    IF k \in IndexMapKeys(m)
    THEN LET i == CHOOSE j \in 1..Len(m) : m[j][1] = k IN m[i][2]
    ELSE 0

\* IndexMap::insert: a new key is appended, a present key keeps its place
\* and gets the new value.
IndexMapInsert(m, k, v) ==
    IF k \in IndexMapKeys(m)
    THEN [i \in 1..Len(m) |-> IF m[i][1] = k THEN <<k, v>> ELSE m[i]]
    ELSE Append(m, <<k, v>>)

\* IndexMap::values
IndexMapValues(m) == [i \in 1..Len(m) |-> m[i][2]]

\* ------------------------------------------------------------- CommandNode

NodeChildren == [children |-> <<>>, literal |-> <<>>, argument |-> <<>>]

CommandNode(tagged, nm, redirect, modifier, forks, command) ==
    [tagged |-> tagged, name |-> nm, edges |-> NodeChildren,
     requirement |-> "always", redirect |-> redirect, modifier |-> modifier,
     forks |-> forks, command |-> command]

\* CommandNode::name
name(node) == IF node.tagged = "Root" THEN "" ELSE node.name

\* CommandNode::children
children(node) == IndexMapValues(node.edges.children)

\* --------------------------------------------------------------- TreeGraph

contains_node(ns, id) == id \in DOMAIN ns

\* SlotMap::insert at key id
SlotInsert(ns, id, node) ==
    [k \in DOMAIN ns \cup {id} |-> IF k = id THEN node ELSE ns[k]]

\* SlotMap::remove
SlotRemove(ns, id) == [k \in DOMAIN ns \ {id} |-> ns[k]]

\* The outcome of a call on the tree: the SlotMap it leaves behind and the
\* place where it panicked ("none" when it returned).
Panic(ns, site) == [nodes |-> ns, panic |-> site]

Return(ns) == [nodes |-> ns, panic |-> "none"]

\* InsertEdge with the kind of the child ignored: every child is indexed as
\* a literal.
InsertEdge_AlwaysLiteral(ns, parent_id, node_id) ==
    LET node_name == name(ns[node_id])
        e         == ns[parent_id].edges
    IN [ns EXCEPT ![parent_id].edges =
           [e EXCEPT !.children = IndexMapInsert(@, node_name, node_id),
                     !.literal = IndexMapInsert(@, node_name, node_id)]]

\* The insertion branch of add_child: the child goes into parent.children
\* and into the sub-index of its kind.
InsertEdge(ns, parent_id, node_id) ==
    LET node      == ns[node_id]
        node_name == name(node)
        e         == ns[parent_id].edges
        e1        == [e EXCEPT !.children = IndexMapInsert(@, node_name, node_id)]
        e2        == IF node.tagged = "Literal"
                     THEN [e1 EXCEPT !.literal = IndexMapInsert(@, node_name, node_id)]
                     ELSE [e1 EXCEPT !.argument = IndexMapInsert(@, node_name, node_id)]
    IN [ns EXCEPT ![parent_id].edges = e2]

\* The command step of a merge taking the redirect, the modifier and the
\* fork flag of the merged-in node along with its command.
TakeCommand_AndRedirect(ns, child_id, node) ==
    LET taken == [ns EXCEPT ![child_id].redirect = node.redirect,
                            ![child_id].modifier = node.modifier,
                            ![child_id].forks = node.forks]
    IN IF node.command # 0
       THEN [taken EXCEPT ![child_id].command = node.command]
       ELSE taken

\* The command step of a merge: the merged-in node's command, if any,
\* overwrites the existing child's.
TakeCommand(ns, child_id, node) ==
    IF node.command # 0
    THEN [ns EXCEPT ![child_id].command = node.command]
    ELSE ns

\* add_child(parent_id, node_id) reaches its merge branch: both ids are in
\* the graph and differ, the node is no Root, the parent has its name.
Merges(ns, parent_id, node_id) ==
    /\ contains_node(ns, parent_id)
    /\ contains_node(ns, node_id)
    /\ parent_id # node_id
    /\ ns[node_id].tagged # "Root"
    /\ IndexMapGet(ns[parent_id].edges.children, name(ns[node_id])) # 0

RECURSIVE add_child(_, _, _)
RECURSIVE MergeGrandchildren(_, _, _, _)

\* add_child without the lookup of the child's name: every call inserts.
add_child_NoMerge(ns, parent_id, node_id) ==
    IF ~(contains_node(ns, parent_id) /\ contains_node(ns, node_id)
         /\ parent_id # node_id)
    THEN Panic(ns, "get_disjoint_mut")
    ELSE IF ns[node_id].tagged = "Root"
    THEN Panic(ns, "root_child")
    ELSE Return(InsertEdge(ns, parent_id, node_id))

\* add_child with the wrong key handed to remove in the merge branch: the
\* parent goes instead of the node.
add_child_RemoveParent(ns, parent_id, node_id) ==
    IF ~(contains_node(ns, parent_id) /\ contains_node(ns, node_id)
         /\ parent_id # node_id)
    THEN Panic(ns, "get_disjoint_mut")
    ELSE IF ns[node_id].tagged = "Root"
    THEN Panic(ns, "root_child")
    ELSE LET node_name == name(ns[node_id])
             child_id  == IndexMapGet(ns[parent_id].edges.children, node_name)
         IN IF child_id # 0
            THEN LET node    == ns[node_id]
                     removed == SlotRemove(ns, parent_id)
                 IN IF ~contains_node(removed, child_id)
                    THEN Panic(removed, "index")
                    ELSE MergeGrandchildren(TakeCommand(removed, child_id, node),
                                            child_id, children(node), 1)
            ELSE Return(InsertEdge(ns, parent_id, node_id))

\* add_child without the check that the child is no Root.
add_child_NoRootCheck(ns, parent_id, node_id) ==
    IF ~(contains_node(ns, parent_id) /\ contains_node(ns, node_id)
         /\ parent_id # node_id)
    THEN Panic(ns, "get_disjoint_mut")
    ELSE LET node_name == name(ns[node_id])
             child_id  == IndexMapGet(ns[parent_id].edges.children, node_name)
         IN IF child_id # 0
            THEN LET node    == ns[node_id]
                     removed == SlotRemove(ns, node_id)
                 IN IF ~contains_node(removed, child_id)
                    THEN Panic(removed, "index")
                    ELSE MergeGrandchildren(TakeCommand(removed, child_id, node),
                                            child_id, children(node), 1)
            ELSE Return(InsertEdge(ns, parent_id, node_id))

\* TreeGraph::add_child
add_child(ns, parent_id, node_id) ==
    IF ~(contains_node(ns, parent_id) /\ contains_node(ns, node_id)
         /\ parent_id # node_id)
    THEN Panic(ns, "get_disjoint_mut")      \* get_disjoint_mut(..).unwrap()
    ELSE IF ns[node_id].tagged = "Root"
    THEN Panic(ns, "root_child")            \* "Cannot add a RootCommandNode ..."
    ELSE LET node_name == name(ns[node_id])
             child_id  == IndexMapGet(ns[parent_id].edges.children, node_name)
         IN IF child_id # 0
            THEN LET node    == ns[node_id]
                     removed == SlotRemove(ns, node_id)
                 IN IF ~contains_node(removed, child_id)
                    THEN Panic(removed, "index")  \* &mut self.nodes[child_id]
                    ELSE MergeGrandchildren(TakeCommand(removed, child_id, node),
                                            child_id, children(node), 1)
            ELSE Return(InsertEdge(ns, parent_id, node_id))

\* for &grandchild_id in node.children() { self.add_child(child_id, grandchild_id) }
MergeGrandchildren(ns, child_id, grandchildren, i) ==
    IF i > Len(grandchildren)
    THEN Return(ns)
    ELSE LET r == add_child(ns, child_id, grandchildren[i])
         IN IF r.panic # "none"
            THEN r
            ELSE MergeGrandchildren(r.nodes, child_id, grandchildren, i + 1)

RECURSIVE add_child_within(_, _, _, _)
RECURSIVE MergeGrandchildren_within(_, _, _, _, _)
RECURSIVE add_child_within_NoRemove(_, _, _, _)
RECURSIVE MergeGrandchildren_within_NoRemove(_, _, _, _, _)

\* add_child_within with the merged-in node left in the graph.
add_child_within_NoRemove(ns, parent_id, node_id, depth) ==
    IF depth = 0
    THEN Panic(ns, "too_deep")
    ELSE IF ~(contains_node(ns, parent_id) /\ contains_node(ns, node_id)
              /\ parent_id # node_id)
    THEN Panic(ns, "get_disjoint_mut")
    ELSE IF ns[node_id].tagged = "Root"
    THEN Panic(ns, "root_child")
    ELSE LET node_name == name(ns[node_id])
             child_id  == IndexMapGet(ns[parent_id].edges.children, node_name)
         IN IF child_id # 0
            THEN LET node == ns[node_id]
                 IN IF ~contains_node(ns, child_id)
                    THEN Panic(ns, "index")
                    ELSE MergeGrandchildren_within_NoRemove(
                             TakeCommand(ns, child_id, node),
                             child_id, children(node), 1, depth - 1)
            ELSE Return(InsertEdge(ns, parent_id, node_id))

MergeGrandchildren_within_NoRemove(ns, child_id, grandchildren, i, depth) ==
    IF i > Len(grandchildren)
    THEN Return(ns)
    ELSE LET r == add_child_within_NoRemove(ns, child_id, grandchildren[i], depth)
         IN IF r.panic # "none"
            THEN r
            ELSE MergeGrandchildren_within_NoRemove(r.nodes, child_id,
                                                    grandchildren, i + 1, depth)

\* TreeGraph::add_child with its call stack counted: depth is the number
\* of nested calls the stack has room for, and a call made with no room
\* left ends as "too_deep".
add_child_within(ns, parent_id, node_id, depth) ==
    IF depth = 0
    THEN Panic(ns, "too_deep")
    ELSE IF ~(contains_node(ns, parent_id) /\ contains_node(ns, node_id)
              /\ parent_id # node_id)
    THEN Panic(ns, "get_disjoint_mut")
    ELSE IF ns[node_id].tagged = "Root"
    THEN Panic(ns, "root_child")
    ELSE LET node_name == name(ns[node_id])
             child_id  == IndexMapGet(ns[parent_id].edges.children, node_name)
         IN IF child_id # 0
            THEN LET node    == ns[node_id]
                     removed == SlotRemove(ns, node_id)
                 IN IF ~contains_node(removed, child_id)
                    THEN Panic(removed, "index")
                    ELSE MergeGrandchildren_within(
                             TakeCommand(removed, child_id, node),
                             child_id, children(node), 1, depth - 1)
            ELSE Return(InsertEdge(ns, parent_id, node_id))

\* The loop over the grandchildren, each call one level further down.
MergeGrandchildren_within(ns, child_id, grandchildren, i, depth) ==
    IF i > Len(grandchildren)
    THEN Return(ns)
    ELSE LET r == add_child_within(ns, child_id, grandchildren[i], depth)
         IN IF r.panic # "none"
            THEN r
            ELSE MergeGrandchildren_within(r.nodes, child_id, grandchildren,
                                           i + 1, depth)

\* ----------------------------------------------------------------- builder

\* ArgumentBuilder::new inside LiteralArgumentBuilder::new or
\* RequiredArgumentBuilder::new; tagged and name are what build will wrap.
ArgumentBuilder(tagged, nm) ==
    [tagged |-> tagged, name |-> nm, arguments |-> <<>>, command |-> 0,
     requirement |-> "always", target |-> 0, modifier |-> 0, forks |-> FALSE]

RECURSIVE AddArguments(_, _, _, _)

\* for argument_id in self.arguments { self.tree.add_child(node_id, argument_id) }
AddArguments(ns, node_id, arguments, i) ==
    IF i > Len(arguments)
    THEN Return(ns)
    ELSE LET r == add_child(ns, node_id, arguments[i])
         IN IF r.panic # "none"
            THEN r
            ELSE AddArguments(r.nodes, node_id, arguments, i + 1)

RECURSIVE Reverse(_)

Reverse(s) == IF s = <<>> THEN <<>> ELSE Append(Reverse(Tail(s)), Head(s))

\* build adding the pending children last first.
build_LastFirst(ns, b, node_id) ==
    LET node == [CommandNode(b.tagged, b.name, b.target, b.modifier, b.forks,
                             b.command) EXCEPT !.requirement = b.requirement]
    IN AddArguments(SlotInsert(ns, node_id, node), node_id, Reverse(b.arguments), 1)

\* ArgumentBuilder::build: the node is inserted under the fresh key node_id,
\* then every pending child is added under it.
build(ns, b, node_id) ==
    LET node == [CommandNode(b.tagged, b.name, b.target, b.modifier, b.forks,
                             b.command) EXCEPT !.requirement = b.requirement]
    IN AddArguments(SlotInsert(ns, node_id, node), node_id, b.arguments, 1)

Top == builders[Len(builders)]

SetTop(b) == [builders EXCEPT ![Len(builders)] = b]

Pop == SubSeq(builders, 1, Len(builders) - 1)

\* ------------------------------------------------------------------- state

NoPanic == "none"

\* TreeGraph::new
Init ==
    /\ nodes = SlotInsert(<<>>, 1, CommandNode("Root", "", 0, 0, FALSE, 0))
    /\ root = 1
    /\ nextId = 2
    /\ builders = <<>>
    /\ panicked = NoPanic
    /\ merged = <<>>

\* TreeGraph::insert of a childless Literal or Argument node that carries a
\* command (crate-internal: the builders of this revision never set one).
\* The command is a fresh Rc, named by the key of the node it came with.
Insert(tagged, nm) ==
    /\ panicked = NoPanic
    /\ nextId + Len(builders) <= MaxNodes
    /\ nodes' = SlotInsert(nodes, nextId, CommandNode(tagged, nm, 0, 0, FALSE, nextId))
    /\ nextId' = nextId + 1
    /\ merged' = <<>>
    /\ UNCHANGED <<root, builders, panicked>>

\* LiteralArgumentBuilder::new / RequiredArgumentBuilder::new: directly on
\* the tree when no builder is alive, as then_build's factory otherwise.
NewBuilder(tagged, nm) ==
    /\ panicked = NoPanic
    /\ Len(builders) < MaxDepth
    /\ nextId + Len(builders) <= MaxNodes
    /\ builders' = Append(builders, ArgumentBuilder(tagged, nm))
    /\ merged' = <<>>
    /\ UNCHANGED <<nodes, root, nextId, panicked>>

\* ArgumentBuilder::then
Then(next) ==
    /\ panicked = NoPanic
    /\ builders # <<>>
    /\ Len(Top.arguments) < MaxPending
    /\ IF contains_node(nodes, next)
       THEN /\ builders' = SetTop([Top EXCEPT !.arguments = Append(@, next)])
            /\ UNCHANGED panicked
       ELSE /\ panicked' = "then_contains"
            /\ UNCHANGED builders
    /\ merged' = <<>>
    /\ UNCHANGED <<nodes, root, nextId>>

\* The assertions of ArgumentBuilder::forward
ForwardAsserts(b, target) ==
    IF ~(b.arguments # <<>>) THEN "forward_children"
    ELSE IF ~contains_node(nodes, target) THEN "forward_contains"
    ELSE "none"

\* ArgumentBuilder::forward (redirect, redirect_modifier and fork call it)
Forward(target, modifier, fork) ==
    /\ panicked = NoPanic
    /\ builders # <<>>
    /\ IF ForwardAsserts(Top, target) = "none"
       THEN /\ builders' = SetTop([Top EXCEPT !.target = target,
                                              !.modifier = modifier,
                                              !.forks = fork])
            /\ UNCHANGED panicked
       ELSE /\ panicked' = ForwardAsserts(Top, target)
            /\ UNCHANGED builders
    /\ merged' = <<>>
    /\ UNCHANGED <<nodes, root, nextId>>

\* Build::build of the innermost builder.  Under an enclosing builder this
\* is the end of then_build: the new node becomes its pending child.
Build ==
    /\ panicked = NoPanic
    /\ builders # <<>>
    /\ LET r == build(nodes, Top, nextId)
       IN /\ nodes' = r.nodes
          /\ nextId' = nextId + 1
          /\ panicked' = r.panic
          /\ IF r.panic # "none" \/ Len(builders) = 1
             THEN builders' = Pop
             ELSE builders' = [Pop EXCEPT ![Len(builders) - 1].arguments =
                                              Append(@, nextId)]
    /\ merged' = <<>>
    /\ UNCHANGED root

\* TreeGraph::add_child called on the tree (directly, or through
\* ArgumentBuilder::tree while a builder is alive)
AddChild(parent_id, node_id) ==
    /\ panicked = NoPanic
    /\ LET r == add_child(nodes, parent_id, node_id)
       IN /\ nodes' = r.nodes
          /\ panicked' = r.panic
    /\ merged' = IF Merges(nodes, parent_id, node_id)
                 THEN <<parent_id, node_id>>
                 ELSE <<>>
    /\ UNCHANGED <<root, nextId, builders>>

Next ==
    \/ \E t \in TaggedWithCommand : Insert(t[1], t[2]) /\ UNCHANGED <<readerVars, shown, suggestVars>>
    \/ \E t \in Tagged : NewBuilder(t[1], t[2]) /\ UNCHANGED <<readerVars, shown, suggestVars>>
    \/ \E id \in Ids : Then(id) /\ UNCHANGED <<readerVars, shown, suggestVars>>
    \/ \E id \in Ids, f \in Forwards :
           Forward(id, f[1], f[2]) /\ UNCHANGED <<readerVars, shown, suggestVars>>
    \/ Build /\ UNCHANGED <<readerVars, shown, suggestVars>>
    \/ \E p \in Ids, c \in Ids : AddChild(p, c) /\ UNCHANGED <<readerVars, shown, suggestVars>>

\* TreeGraph::new, with no reader made, no error rendered and no suggestion
InitTree == Init /\ ReaderIdle /\ ErrorIdle /\ SuggestIdle

Spec == InitTree /\ [][Next]_vars

\* ------------------------------------------------------------------ claims

Live == DOMAIN nodes

Allocated == 1..(nextId - 1)

Removed == Allocated \ Live

IsPrefix(s, t) == Len(s) <= Len(t) /\ \A i \in 1..Len(s) : s[i] = t[i]

UniqueKeys(m) == \A i, j \in 1..Len(m) : m[i][1] = m[j][1] => i = j

\* The keys of an index are the names of the nodes stored under them.
KeysAreNames(ns, m) ==
    \A i \in 1..Len(m) : m[i][2] \in DOMAIN ns => name(ns[m[i][2]]) = m[i][1]

\* C1: under every parent the names of the children are pairwise different,
\* each is the name of the node stored under it, and a step changes a
\* parent's children only by appending: no entry moves, none is replaced, a
\* merge leaves the order as it was.
C1_ChildrenInsertionOrder ==
    [][\A p \in DOMAIN nodes' :
          /\ UniqueKeys(nodes'[p].edges.children)
          /\ KeysAreNames(nodes', nodes'[p].edges.children)
          /\ p \in DOMAIN nodes =>
                 IsPrefix(nodes[p].edges.children, nodes'[p].edges.children)]_vars

\* A merge onto the first of two children: the merged-in node was inserted
\* with a command, which the first child now carries.
C1_Witness ==
    /\ panicked = "none"
    /\ merged # <<>>
    /\ merged[1] \in Live
    /\ LET m == nodes[merged[1]].edges.children
       IN /\ Len(m) >= 2
          /\ m[1][2] \in Live
          /\ nodes[m[1][2]].command = merged[2]

\* C2: under every parent every name of children is a key of exactly one of
\* literal and argument, with the same id, the index being the one of the
\* child's kind; and the two sub-indices hold no other name.
C2_SubIndicesPartitionChildren ==
    \A p \in Live :
        LET e == nodes[p].edges
        IN /\ IndexMapKeys(e.literal) \cap IndexMapKeys(e.argument) = {}
           /\ IndexMapKeys(e.literal) \cup IndexMapKeys(e.argument)
                  = IndexMapKeys(e.children)
           /\ \A i \in 1..Len(e.children) :
                  LET k  == e.children[i][1]
                      id == e.children[i][2]
                  IN /\ id \in {IndexMapGet(e.literal, k), IndexMapGet(e.argument, k)}
                     /\ id \in Live =>
                            /\ nodes[id].tagged = "Literal" <=> k \in IndexMapKeys(e.literal)
                            /\ nodes[id].tagged = "Argument" <=> k \in IndexMapKeys(e.argument)

\* A parent with a literal child and an argument child.
C2_Witness ==
    /\ panicked = "none"
    /\ \E p \in Live :
          /\ nodes[p].edges.literal # <<>>
          /\ nodes[p].edges.argument # <<>>
          /\ Len(nodes[p].edges.children) = 2

\* The child that add_child(p, c) finds under p with the name of c.
Existing(p, c) == IndexMapGet(nodes[p].edges.children, name(nodes[c]))

\* C3: an add_child(p, c) that finds a child with c's name under p removes
\* c from the graph, leaves the child it found in the graph and leaves p's
\* children (names and ids) as they were.
C3_MergeRemovesOnlyTheNewNode ==
    [][\A p \in Ids, c \in Ids :
          (AddChild(p, c) /\ Merges(nodes, p, c)) =>
              /\ c \notin DOMAIN nodes'
              /\ Existing(p, c) \in DOMAIN nodes'
              /\ p \in DOMAIN nodes'
              /\ nodes'[p].edges.children = nodes[p].edges.children]_vars

\* C4: after a merge of c onto the existing child, that child's command is
\* c's command if c had one and its own previous command otherwise.
C4_MergeCommand ==
    [][\A p \in Ids, c \in Ids :
          (AddChild(p, c) /\ Merges(nodes, p, c)) =>
              /\ Existing(p, c) \in DOMAIN nodes'
              /\ nodes'[Existing(p, c)].command =
                     IF nodes[c].command # 0
                     THEN nodes[c].command
                     ELSE nodes[Existing(p, c)].command]_vars

\* Longest name path looked at below a node.
PathDepth == MaxNodes

RECURSIVE NamePaths(_, _, _)

\* The name paths of length 1..d that lead from node id to a node of the
\* graph.
NamePaths(ns, id, d) ==
    IF d = 0 \/ id \notin DOMAIN ns
    THEN {}
    ELSE LET m == ns[id].edges.children
         IN UNION {IF m[i][2] \in DOMAIN ns
                   THEN {<<m[i][1]>>}
                        \cup {<<m[i][1]>> \o q : q \in NamePaths(ns, m[i][2], d - 1)}
                   ELSE {} : i \in 1..Len(m)}

\* C5: when a merge of c onto the existing child returns, every name path
\* that led from c to a node before the call leads from the existing child
\* to a node after it.
C5_MergeKeepsPaths ==
    [][\A p \in Ids, c \in Ids :
          (AddChild(p, c) /\ Merges(nodes, p, c) /\ panicked' = "none") =>
              NamePaths(nodes, c, PathDepth)
                  \subseteq NamePaths(nodes', Existing(p, c), PathDepth)]_vars

\* C6: the graph holds exactly one Root node, it is the node TreeGraph::new
\* inserted, and root names it.
C6_OneRoot ==
    /\ root = 1
    /\ root \in Live
    /\ {id \in Live : nodes[id].tagged = "Root"} = {root}

\* A builder has built a node with a child and a redirect, and a node has
\* been merged away under the root.
C6_Witness ==
    /\ panicked = "none"
    /\ merged # <<>>
    /\ merged[1] = root
    /\ Removed # {}
    /\ \E id \in Live \ {root} :
          /\ nodes[id].edges.children # <<>>
          /\ nodes[id].redirect # 0

\* The Root id is in no index of any node.
RootNotIndexed ==
    \A p \in Live :
        \A i \in 1..Len(nodes[p].edges.children) :
            /\ nodes[p].edges.children[i][2] # root
            /\ root \notin {IndexMapGet(nodes[p].edges.literal, nodes[p].edges.children[i][1]),
                            IndexMapGet(nodes[p].edges.argument, nodes[p].edges.children[i][1])}

\* C7: add_child with the Root as the child panics and leaves the graph as
\* it was, under every parent; and the Root id is in no index.
C7_RootIsNoChild ==
    [][/\ \A p \in Ids :
              AddChild(p, root) => (panicked' # "none" /\ nodes' = nodes)
       /\ RootNotIndexed']_vars

\* add_child(parent, root) has panicked at the Root check, in a graph that
\* has edges.
C7_Witness ==
    /\ panicked = "root_child"
    /\ \E p \in Live : nodes[p].edges.children # <<>>

\* C8: after calls that returned, the redirect of every node of the graph
\* is a node of the graph.
C8_RedirectInGraph ==
    panicked = "none" =>
        \A id \in Live : nodes[id].redirect # 0 => nodes[id].redirect \in Live

\* C9: forward on a builder with a pending child fails its assertion and
\* records nothing; on a builder with none and a target of the graph it
\* records target, modifier and fork flag.
C9_ForwardNeedsNoChildren ==
    [][\A t \in Ids, f \in Forwards :
          Forward(t, f[1], f[2]) =>
              /\ Top.arguments # <<>> =>
                     (panicked' # "none" /\ builders' = builders)
              /\ (Top.arguments = <<>> /\ contains_node(nodes, t)) =>
                     /\ panicked' = "none"
                     /\ builders' = SetTop([Top EXCEPT !.target = t,
                                                      !.modifier = f[1],
                                                      !.forks = f[2]])]_vars

\* C10: after calls that returned, a node of the graph with a redirect has
\* no children.
C10_RedirectHasNoChildren ==
    panicked = "none" =>
        \A id \in Live :
            nodes[id].redirect # 0 => nodes[id].edges.children = <<>>

\* The pending children of a builder are nodes of the graph with pairwise
\* different names.
PendingDistinct(b) ==
    /\ \A i \in 1..Len(b.arguments) : contains_node(nodes, b.arguments[i])
    /\ \A i, j \in 1..Len(b.arguments) :
           i # j => name(nodes[b.arguments[i]]) # name(nodes[b.arguments[j]])

\* What build is to do with the innermost builder: one new node under the
\* fresh key, of the builder's kind and name, with its redirect, modifier
\* and fork flag, the pending children below it in the order of the calls
\* of then; every other node as it was, so that no parent holds the new
\* node; the key handed to the enclosing then_build.
Built ==
    /\ panicked' = "none"
    /\ DOMAIN nodes' = DOMAIN nodes \cup {nextId}
    /\ nextId \notin DOMAIN nodes
    /\ \A id \in DOMAIN nodes : nodes'[id] = nodes[id]
    /\ nodes'[nextId].tagged = Top.tagged
    /\ nodes'[nextId].name = Top.name
    /\ nodes'[nextId].redirect = Top.target
    /\ nodes'[nextId].modifier = Top.modifier
    /\ nodes'[nextId].forks = Top.forks
    /\ children(nodes'[nextId]) = Top.arguments
    /\ Len(builders) > 1 =>
           builders'[Len(builders')].arguments =
               Append(builders[Len(builders) - 1].arguments, nextId)

\* C25 as stated: build on a builder whose pending children are nodes of
\* the graph with pairwise different names inserts one node of the
\* builder's kind with its redirect, modifier and fork flag, puts the
\* pending children below it in their order, returns its key and attaches
\* it to no parent.
C25_BuildAttachesPending ==
    [][(builders # <<>> /\ PendingDistinct(Top) /\ Build) => Built]_vars

\* C25 with the Root kept out of the pending children: build does all of
\* the above when the pending children are nodes of the graph other than
\* the Root with pairwise different names.
C25_BuildAttachesNonRoot ==
    [][(/\ builders # <<>>
        /\ PendingDistinct(Top)
        /\ \A i \in 1..Len(Top.arguments) :
               nodes[Top.arguments[i]].tagged # "Root"
        /\ Build) => Built]_vars

\* The indices of the graph that hold id.
Holders(id) ==
    {p \in Live :
        \E i \in 1..Len(nodes[p].edges.children) :
            nodes[p].edges.children[i][2] = id}

\* A node a builder has built (it carries a redirect, which only forward
\* sets) with two children of different names in the order of their keys'
\* insertion into the builder, held by no parent.
C25_Witness ==
    /\ panicked = "none"
    /\ \E id \in Live :
          /\ nodes[id].redirect # 0
          /\ Len(nodes[id].edges.children) = MaxPending
          /\ \A i \in 1..MaxPending : nodes[id].edges.children[i][2] \in Live
          /\ Holders(id) = {}

\* Every id in an index of a node of the graph is a node of the graph.
NoDanglingId ==
    \A p \in Live :
        LET e == nodes[p].edges
        IN /\ \A i \in 1..Len(e.children) : e.children[i][2] \in Live
           /\ \A i \in 1..Len(e.literal) : e.literal[i][2] \in Live
           /\ \A i \in 1..Len(e.argument) : e.argument[i][2] \in Live

\* C26: after calls of add_child that returned, every id in the children,
\* literal or argument index of a node of the graph is a node of the graph,
\* also when a merged-away node was a child of another parent.
C26_NoDanglingChild ==
    panicked = "none" => NoDanglingId

\* C27: a merge (add_child(p, c) that finds a child with c's name under
\* p) takes c out of the graph and leaves kind, name, requirement,
\* redirect, modifier and fork flag of every node that stays as they were,
\* the existing child among them: it writes only commands and indices, and
\* what c carried besides its command and children goes with it, also when
\* the two nodes have one name and different kinds.
C27_MergeFrame ==
    [][merged' # <<>> =>
          /\ merged'[2] \notin DOMAIN nodes'
          /\ DOMAIN nodes' \subseteq DOMAIN nodes
          /\ \A id \in DOMAIN nodes' :
                 /\ nodes'[id].tagged = nodes[id].tagged
                 /\ nodes'[id].name = nodes[id].name
                 /\ nodes'[id].requirement = nodes[id].requirement
                 /\ nodes'[id].redirect = nodes[id].redirect
                 /\ nodes'[id].modifier = nodes[id].modifier
                 /\ nodes'[id].forks = nodes[id].forks]_vars

\* An Argument node carries a command: only inserted Literal nodes come
\* with one, so a Literal of its name was merged onto it, and it is still
\* an Argument.
C27_Witness ==
    /\ panicked = "none"
    /\ merged # <<>>
    /\ merged[1] \in Live
    /\ \E i \in 1..Len(nodes[merged[1]].edges.children) :
          LET id == nodes[merged[1]].edges.children[i][2]
          IN /\ id \in Live
             /\ nodes[id].tagged = "Argument"
             /\ nodes[id].command # 0
             /\ nodes[id].command \notin Live

\* Every nested call of add_child follows a removal, so a graph of n nodes
\* has room for n + 1 calls on the stack.
Deepest(ns) == Cardinality(DOMAIN ns) + 1

\* The child edges between nodes of the graph form a cycle of two.
Cyclic ==
    \E a \in Live, b \in Live :
        /\ a # b
        /\ b \in Holders(a)
        /\ a \in Holders(b)

\* C28: in every graph the calls reach, cycles of child edges and nodes
\* with several parents among them, add_child(p, c) ends for every p and
\* c: its recursion never nests deeper than the graph has nodes, plus
\* one, and it ends as the call of unbounded depth does.
C28_AddChildTerminates ==
    \A p \in Ids, c \in Ids :
        LET r == add_child_within(nodes, p, c, Deepest(nodes))
        IN /\ r.panic # "too_deep"
           /\ r = add_child(nodes, p, c)

\* A graph with a cycle of child edges and a node with two parents, on
\* which a call of add_child merges and calls itself for a grandchild.
C28_Witness ==
    /\ panicked = "none"
    /\ Cyclic
    /\ \E id \in Live : Cardinality(Holders(id)) >= 2
    /\ \E p \in Live, c \in Live :
          /\ Merges(nodes, p, c)
          /\ add_child_within(nodes, p, c, 1).panic = "too_deep"

\* ============================================================ StringReader

\* A str is the sequence of its characters.  A character is a string: an
\* ASCII character is itself, any other is named by its code point.

Digits == {"0", "1", "2", "3", "4", "5", "6", "7", "8", "9"}

Upper == {"A", "B", "C", "D", "E", "F", "G", "H", "I", "J", "K", "L", "M",
          "N", "O", "P", "Q", "R", "S", "T", "U", "V", "W", "X", "Y", "Z"}

Lower == {"a", "b", "c", "d", "e", "f", "g", "h", "i", "j", "k", "l", "m",
          "n", "o", "p", "q", "r", "s", "t", "u", "v", "w", "x", "y", "z"}

\* The characters UTF-8 encodes in three bytes, among those of the model:
\* the spaces of is_java_space above U+07FF and the check mark of the tests.
ThreeBytes == {"U+1680", "U+2000", "U+2001", "U+2002", "U+2003", "U+2004",
               "U+2005", "U+2006", "U+2008", "U+2009", "U+200A", "U+2028",
               "U+2029", "U+205F", "U+3000", "U+2705"}

\* char::len_utf8
len_utf8(c) == IF c \in ThreeBytes THEN 3 ELSE 1

RECURSIVE len(_)

\* str::len: the length in bytes
len(s) == IF s = <<>> THEN 0 ELSE len_utf8(Head(s)) + len(Tail(s))

\* &s[from..] and &s[..to] by character positions
From(s, i) == SubSeq(s, i, Len(s))

UpTo(s, i) == SubSeq(s, 1, i)

SYNTAX_ESCAPE == "\\"

is_allowed_number(c) == c \in Digits \cup {".", "-"}

\* is_allowed_in_unquoted_string without the '+' of its match.
is_allowed_in_unquoted_string_NoPlus(c) ==
    c \in Digits \cup Upper \cup Lower \cup {"_", "-", "."}

is_allowed_in_unquoted_string(c) ==
    c \in Digits \cup Upper \cup Lower \cup {"_", "-", ".", "+"}

is_quoted_string_start(c) == c = "\"" \/ c = "'"

is_java_space(c) ==
    c \in {"\t", "\n", "U+000B", "\f", "\r", "U+001C", "U+001D", "U+001E", "U+001F",
           " ", "U+2028", "U+2029", "U+1680",
           "U+2000", "U+2001", "U+2002", "U+2003", "U+2004", "U+2005", "U+2006",
           "U+2008", "U+2009", "U+200A", "U+205F", "U+3000"}

\* The number of leading characters of s that satisfy the predicate named
\* by which.
Allowed(which, c) ==
    CASE which = "number"   -> is_allowed_number(c)
      [] which = "unquoted" -> is_allowed_in_unquoted_string(c)
      [] which = "space"    -> is_java_space(c)

RECURSIVE Run(_, _)

Run(which, s) ==
    IF s # <<>> /\ Allowed(which, Head(s)) THEN 1 + Run(which, Tail(s)) ELSE 0

\* nom's take_while(pred)(s).unwrap(): <<the rest, the prefix taken>>
take_while(which, s) == <<From(s, Run(which, s) + 1), UpTo(s, Run(which, s))>>

\* ------------------------------------------------------ CommandSyntaxError

\* A CommandErrorType: the variant and what it carries (<<>> for nothing).
ErrorType(variant, carried) == [variant |-> variant, carried |-> carried]

\* CommandSyntaxError::new: context None is the empty sequence
new(error_type) == [error_type |-> error_type, context |-> <<>>]

\* CommandSyntaxError::with_context: context Some(c) is <<c>>
with_context(error_type, ctx) == [error_type |-> error_type, context |-> <<ctx>>]

\* The result of a call on a reader r = [input, remaining]: the reader's
\* remaining after the call and Ok(value), Err(error) or a panic.
Ok(rem, value) == [remaining |-> rem, kind |-> "ok", value |-> value]

Err(rem, error) == [remaining |-> rem, kind |-> "err", error |-> error]

Panicked(rem) == [remaining |-> rem, kind |-> "panic"]

\* ------------------------------------------------------------ StringReader

StringReader(inp, rem) == [input |-> inp, remaining |-> rem]

\* StringReader::cursor
cursor(r) == len(r.input) - len(r.remaining)

\* StringReader::context
context(r) == [input |-> r.input, cursor |-> len(r.input) - len(r.remaining)]

\* The character positions p of s with exactly n bytes before them
\* (p = Len(s) + 1 is the end): none when n is no character boundary.
Boundary(s, n) == {p \in 1..(Len(s) + 1) : len(UpTo(s, p - 1)) = n}

\* set_cursor that slices remaining where the code slices input.
set_cursor_OfRemaining(r, c) ==
    IF Boundary(r.remaining, c) = {}
    THEN Panicked(r.remaining)
    ELSE Ok(From(r.remaining, CHOOSE p \in Boundary(r.remaining, c) : TRUE), <<>>)

\* StringReader::set_cursor: &self.input[cursor..] panics off a character
\* boundary and beyond the end.
set_cursor(r, c) ==
    IF Boundary(r.input, c) = {}
    THEN Panicked(r.remaining)
    ELSE Ok(From(r.input, CHOOSE p \in Boundary(r.input, c) : TRUE), <<>>)

\* StringReader::skip: &self.remaining[1..] panics on an empty remaining
\* and inside a character of several bytes.
skip(r) ==
    IF r.remaining = <<>> \/ len_utf8(Head(r.remaining)) # 1
    THEN Panicked(r.remaining)
    ELSE Ok(Tail(r.remaining), <<>>)

\* StringReader::skip_whitespace
skip_whitespace(r) == Ok(take_while("space", r.remaining)[1], <<>>)

\* ---------------------------------------------------------- str::parse

\* A number is its sign and its decimal digits, the integer part without
\* leading zeros and the fraction without trailing zeros: the value the
\* text denotes, free of the width of the machine's integers.  (The rounding
\* of f32 and f64 is not modelled: a float is the decimal it was read from.)
Number(neg, int, frac) == [neg |-> neg, int |-> int, frac |-> frac]

DigitSeq == <<"0", "1", "2", "3", "4", "5", "6", "7", "8", "9">>

DigitValue(c) == (CHOOSE i \in 1..Len(DigitSeq) : DigitSeq[i] = c) - 1

RECURSIVE StripLeading(_)

StripLeading(d) == IF d # <<>> /\ Head(d) = "0" THEN StripLeading(Tail(d)) ELSE d

RECURSIVE StripTrailing(_)

StripTrailing(d) ==
    IF d # <<>> /\ d[Len(d)] = "0" THEN StripTrailing(UpTo(d, Len(d) - 1)) ELSE d

RECURSIVE LexLess(_, _)

\* Digit strings compared from the left, a missing digit counting as 0.
LexLess(a, b) ==
    IF b = <<>> THEN FALSE
    ELSE IF a = <<>> THEN StripTrailing(b) # <<>>
    ELSE IF Head(a) # Head(b) THEN DigitValue(Head(a)) < DigitValue(Head(b))
    ELSE LexLess(Tail(a), Tail(b))

\* |a| < |b|
MagLess(a, b) ==
    \/ Len(a.int) < Len(b.int)
    \/ Len(a.int) = Len(b.int) /\ LexLess(a.int, b.int)
    \/ a.int = b.int /\ LexLess(a.frac, b.frac)

IsZero(a) == a.int = <<>> /\ a.frac = <<>>

Negative(a) == a.neg /\ ~IsZero(a)

\* a < b
NumLess(a, b) ==
    IF Negative(a)
    THEN IF Negative(b) THEN MagLess(b, a) ELSE TRUE
    ELSE IF Negative(b) THEN FALSE ELSE MagLess(a, b)

AllDigits(s) == \A i \in 1..Len(s) : s[i] \in Digits

\* i32::MAX and i64::MAX, as digits
I32_MAX == <<"2", "1", "4", "7", "4", "8", "3", "6", "4", "7">>

I64_MAX == <<"9", "2", "2", "3", "3", "7", "2", "0", "3", "6",
             "8", "5", "4", "7", "7", "5", "8", "0", "7">>

MAX(T) == IF T = "i32" THEN I32_MAX ELSE I64_MAX

\* -(MAX + 1) <= n <= MAX
InRange(T, n) ==
    LET max == Number(FALSE, MAX(T), <<>>)
    IN IF Negative(n)
       THEN ~MagLess(max, Number(FALSE, n.int, <<>>))
            \/ (n.int = UpTo(MAX(T), Len(MAX(T)) - 1)
                            \o <<DigitSeq[DigitValue(MAX(T)[Len(MAX(T))]) + 2]>>)
       ELSE ~MagLess(max, n)

\* <i32 as FromStr>::from_str and <i64 as FromStr>::from_str on a text of
\* the characters [0-9.-]: a sign, then digits, at least one; the value has
\* to fit.  <<TRUE, value>> or <<FALSE>>.
parse_int(T, s) ==
    LET neg  == s # <<>> /\ Head(s) = "-"
        body == IF neg THEN Tail(s) ELSE s
        n    == Number(neg, StripLeading(body), <<>>)
    IN IF body = <<>> \/ ~AllDigits(body) THEN <<FALSE>>
       ELSE IF ~InRange(T, n) THEN <<FALSE>>
       ELSE <<TRUE, Number(Negative(n), n.int, <<>>)>>

\* <f32 as FromStr>::from_str and <f64 as FromStr>::from_str on a text of
\* the characters [0-9.-]: a sign, then digits with at most one point among
\* them, at least one digit.  Too large a number is no error (it reads as
\* an infinity).
parse_float(s) ==
    LET neg   == s # <<>> /\ Head(s) = "-"
        body  == IF neg THEN Tail(s) ELSE s
        dots  == {i \in 1..Len(body) : body[i] = "."}
        point == IF dots = {} THEN Len(body) + 1 ELSE CHOOSE i \in dots : TRUE
        int   == UpTo(body, point - 1)
        frac  == From(body, point + 1)
    IN IF Cardinality(dots) > 1 \/ ~AllDigits(int) \/ ~AllDigits(frac)
          \/ (int = <<>> /\ frac = <<>>)
       THEN <<FALSE>>
       ELSE <<TRUE, Number(neg, StripLeading(int), StripTrailing(frac))>>

\* number.parse() at the type $num of impl_read_number
from_str(T, s) == IF T \in {"i32", "i64"} THEN parse_int(T, s) ELSE parse_float(s)

\* ------------------------------------------------------------------ reads

\* impl_read_number!($fnname, $num, $err_enum)
read_number(r, T, err_enum) ==
    LET taken  == take_while("number", r.remaining)
        number == taken[2]
    IN IF number = <<>>
       THEN Err(r.remaining, new(ErrorType("ReaderExpectedInt", <<>>)))
       ELSE IF from_str(T, number)[1]
       THEN Ok(taken[1], from_str(T, number)[2])
       ELSE Err(r.remaining, with_context(ErrorType(err_enum, number), context(r)))

read_int(r) == read_number(r, "i32", "ReaderInvalidInt")

read_long(r) == read_number(r, "i64", "ReaderInvalidInt")

read_float(r) == read_number(r, "f32", "ReaderInvalidInt")

read_double(r) == read_number(r, "f64", "ReaderInvalidInt")

\* Cow::Borrowed and Cow::Owned
Borrowed(str) == [owned |-> FALSE, str |-> str]

Owned(str) == [owned |-> TRUE, str |-> str]

\* StringReader::read_unquoted_string
read_unquoted_string(r) ==
    LET taken == take_while("unquoted", r.remaining)
    IN Ok(taken[1], taken[2])

\* The end of read_string_until: no terminator was found.
ExpectedEndOfQuote(r) ==
    Err(<<>>, with_context(ErrorType("ReaderExpectedEndOfQuote", <<>>),
                           context(StringReader(r.input, <<>>))))

RECURSIVE ReadOwned(_, _, _, _, _)

\* The second loop of read_string_until, at character idx of remaining,
\* with the String built so far and the escaped flag.
ReadOwned(r, terminator, idx, result, escaped) ==
    IF idx > Len(r.remaining)
    THEN ExpectedEndOfQuote(r)
    ELSE LET c == r.remaining[idx]
         IN IF escaped
            THEN IF c = terminator \/ c = SYNTAX_ESCAPE
                 THEN ReadOwned(r, terminator, idx + 1, Append(result, c), FALSE)
                 ELSE Err(From(r.remaining, idx),
                          with_context(ErrorType("ReaderInvalidEscape", c),
                                       context(StringReader(r.input, From(r.remaining, idx)))))
            ELSE IF c = SYNTAX_ESCAPE
            THEN ReadOwned(r, terminator, idx + 1, result, TRUE)
            ELSE IF c = terminator
            THEN Ok(From(r.remaining, idx + 1), Owned(result))
            ELSE ReadOwned(r, terminator, idx + 1, Append(result, c), FALSE)

\* read_string_until whose first loop leaves the terminator in remaining
\* (&self.remaining[idx..] for &self.remaining[idx + 1..]).
read_string_until_KeepsTerminator(r, terminator) ==
    LET stops == {i \in 1..Len(r.remaining) :
                      r.remaining[i] = SYNTAX_ESCAPE \/ r.remaining[i] = terminator}
        idx   == CHOOSE i \in stops : \A j \in stops : i <= j
    IN IF stops = {}
       THEN ExpectedEndOfQuote(r)
       ELSE IF r.remaining[idx] = SYNTAX_ESCAPE
       THEN ReadOwned(r, terminator, idx + 1, UpTo(r.remaining, idx - 1), TRUE)
       ELSE Ok(From(r.remaining, idx), Borrowed(UpTo(r.remaining, idx - 1)))

\* StringReader::read_string_until: up to the first escape or terminator
\* nothing is allocated; from the first escape on the String is built.
read_string_until(r, terminator) ==
    LET stops == {i \in 1..Len(r.remaining) :
                      r.remaining[i] = SYNTAX_ESCAPE \/ r.remaining[i] = terminator}
        idx   == CHOOSE i \in stops : \A j \in stops : i <= j
    IN IF stops = {}
       THEN ExpectedEndOfQuote(r)
       ELSE IF r.remaining[idx] = SYNTAX_ESCAPE
       THEN ReadOwned(r, terminator, idx + 1, UpTo(r.remaining, idx - 1), TRUE)
       ELSE Ok(From(r.remaining, idx + 1), Borrowed(UpTo(r.remaining, idx - 1)))

\* read_quoted_string that falls back to an unquoted string, as read_string
\* does, where the code fails ReaderExpectedStartOfQuote.
read_quoted_string_OrUnquoted(r) ==
    IF len(r.remaining) = 0
    THEN Ok(r.remaining, Borrowed(<<>>))
    ELSE LET quote == Head(r.remaining)
         IN IF is_quoted_string_start(quote)
            THEN read_string_until(StringReader(r.input, Tail(r.remaining)), quote)
            ELSE LET u == read_unquoted_string(r)
                 IN Ok(u.remaining, Borrowed(u.value))

\* StringReader::read_quoted_string
read_quoted_string(r) ==
    IF len(r.remaining) = 0
    THEN Ok(r.remaining, Borrowed(<<>>))
    ELSE LET quote == Head(r.remaining)
         IN IF ~is_quoted_string_start(quote)
            THEN Err(r.remaining,
                     with_context(ErrorType("ReaderExpectedStartOfQuote", <<>>), context(r)))
            ELSE read_string_until(StringReader(r.input, Tail(r.remaining)), quote)

\* StringReader::read_string
read_string(r) ==
    IF len(r.remaining) = 0
    THEN Ok(r.remaining, Borrowed(<<>>))
    ELSE LET quote == Head(r.remaining)
         IN IF is_quoted_string_start(quote)
            THEN read_string_until(StringReader(r.input, Tail(r.remaining)), quote)
            ELSE LET u == read_unquoted_string(r)
                 IN Ok(u.remaining, Borrowed(u.value))

\* read_boolean without self.remaining = start.
read_boolean_NoRestore(r) ==
    LET s == read_string(r)
    IN IF s.kind # "ok"
       THEN s
       ELSE IF s.value.str = <<"t", "r", "u", "e">> THEN Ok(s.remaining, TRUE)
       ELSE IF s.value.str = <<"f", "a", "l", "s", "e">> THEN Ok(s.remaining, FALSE)
       ELSE Err(s.remaining, with_context(ErrorType("ReaderInvalidBool", s.value),
                                          context(StringReader(r.input, s.remaining))))

\* StringReader::read_boolean
read_boolean(r) ==
    LET start == r.remaining
        s     == read_string(r)
    IN IF s.kind # "ok"
       THEN s
       ELSE IF s.value.str = <<"t", "r", "u", "e">> THEN Ok(s.remaining, TRUE)
       ELSE IF s.value.str = <<"f", "a", "l", "s", "e">> THEN Ok(s.remaining, FALSE)
       ELSE Err(start, with_context(ErrorType("ReaderInvalidBool", s.value),
                                    context(StringReader(r.input, start))))

\* -------------------------------------------------- NumericArgumentType

\* reader.$read(): the number read the macro is instantiated with, by name
ReadNumber(read, r) ==
    CASE read = "read_int"    -> read_int(r)
      [] read = "read_long"   -> read_long(r)
      [] read = "read_float"  -> read_float(r)
      [] read = "read_double" -> read_double(r)


\* impl_numeric_argument_type!($Name, $T, $read, $ErrTooSmall, $ErrTooBig):
\* parse, with range = <<*self.range.start(), *self.range.end()>>
parse(r, read, ErrTooSmall, ErrTooBig, range) ==
    LET start  == cursor(r)
        result == ReadNumber(read, r)
        after  == StringReader(r.input, result.remaining)
        rewound == StringReader(r.input, set_cursor(after, start).remaining)
    IN IF result.kind # "ok"
       THEN result
       ELSE IF NumLess(result.value, range[1])
       THEN Err(rewound.remaining,
                with_context(ErrorType(ErrTooSmall,
                                       [found |-> result.value, min |-> range[1]]),
                             context(rewound)))
       ELSE IF NumLess(range[2], result.value)
       THEN Err(rewound.remaining,
                with_context(ErrorType(ErrTooBig,
                                       [found |-> result.value, max |-> range[2]]),
                             context(rewound)))
       ELSE Ok(result.remaining, result.value)

\* parse without the two calls of set_cursor: the reader stays behind the
\* number when the range check fails.
parse_NoRewind(r, read, ErrTooSmall, ErrTooBig, range) ==
    LET result == ReadNumber(read, r)
        after  == StringReader(r.input, result.remaining)
    IN IF result.kind # "ok"
       THEN result
       ELSE IF NumLess(result.value, range[1])
       THEN Err(after.remaining,
                with_context(ErrorType(ErrTooSmall,
                                       [found |-> result.value, min |-> range[1]]),
                             context(after)))
       ELSE IF NumLess(range[2], result.value)
       THEN Err(after.remaining,
                with_context(ErrorType(ErrTooBig,
                                       [found |-> result.value, max |-> range[2]]),
                             context(after)))
       ELSE Ok(result.remaining, result.value)

DoubleArgumentType_parse_NoRewind(r, range) ==
    parse_NoRewind(r, "read_double", "DoubleTooSmall", "DoubleTooBig", range)

\* impl_numeric_argument_type!(DoubleArgumentType, f64, read_double,
\* DoubleTooSmall, DoubleTooBig): the one numeric argument type there is
DoubleArgumentType_parse(r, range) ==
    parse(r, "read_double", "DoubleTooSmall", "DoubleTooBig", range)

\* ------------------------------------------------------------ reader state

\* Longest input made of the characters of Alphabet.
MaxInput == 3

\* A digit, the point, a letter, the two quotes, the escape, a space.
Alphabet == {"1", ".", "a", "\"", "'", "\\", " "}

RECURSIVE Strings(_)

\* The texts of at most n characters of Alphabet.
Strings(n) ==
    IF n = 0 THEN {<<>>}
    ELSE LET shorter == Strings(n - 1)
         IN shorter \cup {Append(t, c) : t \in shorter, c \in Alphabet}

\* Longer inputs and inputs of other characters.
Texts == {
    \* the booleans, bare, quoted, followed and misspelt
    <<"t", "r", "u", "e">>,
    <<"f", "a", "l", "s", "e">>,
    <<"t", "r", "u", "e", " ", "1">>,
    <<"f", "a", "l", "s", "e", ".">>,
    <<"T", "r", "u", "e">>,
    <<"t", "r", "u">>,
    <<"t", "r", "u", "t", "h">>,
    <<"\"", "t", "r", "u", "e", "\"">>,
    <<"'", "f", "a", "l", "s", "e", "'", "a">>,
    <<"\"", "t", "r", "u", "e">>,
    <<"'", "t", "r", "\\", "u", "e", "'">>,
    \* signs, zeros, points
    <<"-">>,
    <<"-", "1">>,
    <<"-", "0">>,
    <<"1", "-">>,
    <<"-", "-", "1">>,
    <<"-", ".", "1">>,
    <<"-", "1", ".">>,
    <<"-", ".">>,
    <<"0", "0", "7">>,
    <<"0">>,
    <<"0", ".", "0">>,
    <<"1", "0">>,
    <<"1", "0", ".", "0">>,
    <<"1", "5">>,
    <<"1", ".", "5", "0">>,
    <<"9">>,
    <<"-", "2">>,
    \* the ends of i32 and of i64
    <<"2", "1", "4", "7", "4", "8", "3", "6", "4", "7">>,
    <<"2", "1", "4", "7", "4", "8", "3", "6", "4", "8">>,
    <<"-", "2", "1", "4", "7", "4", "8", "3", "6", "4", "8">>,
    <<"-", "2", "1", "4", "7", "4", "8", "3", "6", "4", "9">>,
    <<"9", "2", "2", "3", "3", "7", "2", "0", "3", "6", "8", "5", "4", "7", "7", "5", "8", "0", "7">>,
    <<"9", "2", "2", "3", "3", "7", "2", "0", "3", "6", "8", "5", "4", "7", "7", "5", "8", "0", "8">>,
    <<"-", "9", "2", "2", "3", "3", "7", "2", "0", "3", "6", "8", "5", "4", "7", "7", "5", "8", "0", "8">>,
    <<"-", "9", "2", "2", "3", "3", "7", "2", "0", "3", "6", "8", "5", "4", "7", "7", "5", "8", "0", "9">>,
    \* escapes: of the quote, of the escape, of the other quote, at the end
    <<"\"", "\\", "\"", "\"">>,
    <<"'", "\\", "\\", "'", "1">>,
    <<"'", "a", "\\", "'", "\"", "\\", "\\", "'", " ">>,
    <<"\"", "\\", "'", "\"">>,
    <<"\"", "a", "\\", "\\", "\\">>,
    <<"\"", "\\", "\\", "\\", "'", "\"">>,
    \* the texts of tests/string_reader.rs
    <<"f", "o", "o", "-", "0", "1", "2", "3", "4", "5", "6", "7", "8", "9", ".", "_", " ", "b", "a", "r", " ", "b", "a", "z">>,
    <<"\"", "f", "o", "o", "\"", "a", "b", "c">>,
    <<"'", "C", "h", "e", "c", "k", ":", " ", "U+2705", ".", "'", "a", "b", "c">>,
    <<"\"", "t", "h", "i", "s", " ", "i", "s", " ", "a", "\\", "\"", " ", "t", "e", "s", "t", "\"", "a", "b", "c">>,
    \* the other characters of unquoted strings, white space, characters of three bytes
    <<"+", "1">>,
    <<"A", "_", "z", "+", "-", ".", "9", "!">>,
    <<" ", "\t", "U+3000", "1">>,
    <<"U+2705">>,
    <<"U+2705", "1", "U+2705">>,
    <<"\"", "U+2705", "\\", "U+2705", "\"">>}

Inputs == Strings(MaxInput) \cup Texts

\* The terminators read_string_until is called with on its own.
Terminators == {"\"", "a"}

\* The ranges of the numeric argument type: 1..=10 and -1.5..=1.1
Ranges == {<<Number(FALSE, <<"1">>, <<>>), Number(FALSE, <<"1", "0">>, <<>>)>>,
           <<Number(TRUE, <<"1">>, <<"5">>), Number(FALSE, <<"1">>, <<"1">>)>>}

\* The reader of the state
Reader == StringReader(input, remaining)

\* A call op(arg) is made on the reader and ends as res (arg is <<>> for a
\* call without argument).
Call(op, arg, res) ==
    /\ last.result.kind # "panic"
    /\ remaining' = res.remaining
    /\ last' = [op |-> op, arg |-> arg, before |-> remaining, result |-> res]
    /\ UNCHANGED <<input, treeVars, shown, suggestVars>>

\* StringReader::new, on any of the inputs
InitReader ==
    /\ Init
    /\ ErrorIdle
    /\ SuggestIdle
    /\ input \in Inputs
    /\ remaining = input
    /\ last = [op |-> "new", arg |-> <<>>, before |-> input, result |-> Ok(input, <<>>)]

ReadInt == Call("read_int", <<>>, read_int(Reader))

ReadLong == Call("read_long", <<>>, read_long(Reader))

ReadFloat == Call("read_float", <<>>, read_float(Reader))

ReadDouble == Call("read_double", <<>>, read_double(Reader))

ReadBoolean == Call("read_boolean", <<>>, read_boolean(Reader))

ReadString == Call("read_string", <<>>, read_string(Reader))

ReadQuotedString == Call("read_quoted_string", <<>>, read_quoted_string(Reader))

ReadUnquotedString == Call("read_unquoted_string", <<>>, read_unquoted_string(Reader))

ReadStringUntil(terminator) ==
    Call("read_string_until", terminator, read_string_until(Reader, terminator))

SkipWhitespace == Call("skip_whitespace", <<>>, skip_whitespace(Reader))

Skip == Call("skip", <<>>, skip(Reader))

SetCursor(c) == Call("set_cursor", c, set_cursor(Reader, c))

\* DoubleArgumentType { range }.parse(&mut reader)
Parse(range) == Call("parse", range, DoubleArgumentType_parse(Reader, range))

NextReader ==
    \/ ReadInt
    \/ ReadLong
    \/ ReadFloat
    \/ ReadDouble
    \/ ReadBoolean
    \/ ReadString
    \/ ReadQuotedString
    \/ ReadUnquotedString
    \/ \E t \in Terminators : ReadStringUntil(t)
    \/ SkipWhitespace
    \/ Skip
    \/ \E c \in 0..(len(input) + 1) : SetCursor(c)
    \/ \E range \in Ranges : Parse(range)

SpecReader == InitReader /\ [][NextReader]_vars

\* ----------------------------------------------------------- reader claims

\* The read operations of the reader.
ReadOps == {"read_int", "read_long", "read_float", "read_double", "read_boolean",
            "read_string", "read_quoted_string", "read_unquoted_string"}

\* The reader as the last call found it, its cursor then and the cursor now.
Before == StringReader(input, last.before)

CursorBefore == cursor(Before)

CursorNow == cursor(Reader)

\* The error the last call returned.
Error == last.result.error

\* C11: when a read operation returns an error, the cursor is where it was
\* before the call.
C11_FailedReadRewinds ==
    (last.op \in ReadOps /\ last.result.kind = "err") => CursorNow = CursorBefore

\* The maximal prefix of the text made of the characters [0-9.-].
NumberPrefix(s) ==
    LET n == CHOOSE k \in 0..Len(s) :
                 /\ \A i \in 1..k : s[i] \in Digits \cup {".", "-"}
                 /\ k < Len(s) => s[k + 1] \notin Digits \cup {".", "-"}
    IN UpTo(s, n)

\* C12: parse of the numeric argument type with the range min..=max, when
\* the number reads as v: v < min fails TooSmall{found: v, min}, v > max
\* fails TooBig{found: v, max}, both with the cursor where it was before the
\* call and that cursor in the error's context; otherwise v is returned and
\* the reader is behind the number.
C12_NumericRange ==
    (last.op = "parse" /\ from_str("f64", NumberPrefix(last.before))[1]) =>
        LET v   == from_str("f64", NumberPrefix(last.before))[2]
            min == last.arg[1]
            max == last.arg[2]
            res == last.result
        IN /\ NumLess(v, min) =>
                  /\ res.kind = "err"
                  /\ Error.error_type = ErrorType("DoubleTooSmall", [found |-> v, min |-> min])
                  /\ CursorNow = CursorBefore
                  /\ Error.context = <<[input |-> input, cursor |-> CursorBefore]>>
           /\ NumLess(max, v) =>
                  /\ res.kind = "err"
                  /\ Error.error_type = ErrorType("DoubleTooBig", [found |-> v, max |-> max])
                  /\ CursorNow = CursorBefore
                  /\ Error.context = <<[input |-> input, cursor |-> CursorBefore]>>
           /\ (~NumLess(v, min) /\ ~NumLess(max, v)) =>
                  /\ res.kind = "ok"
                  /\ res.value = v
                  /\ remaining = From(last.before, Len(NumberPrefix(last.before)) + 1)
                  /\ CursorNow = CursorBefore + Len(NumberPrefix(last.before))

\* The range 1..=10 has refused 15 in the middle of an input and has let its
\* two ends through.
C12_Witness ==
    /\ last.op = "parse"
    /\ last.result.kind = "err"
    /\ Error.error_type.variant = "DoubleTooBig"
    /\ CursorBefore > 0
    /\ Len(NumberPrefix(last.before)) > 1

\* The quoted text the last call found: its quote and what follows it.
Quote == Head(last.before)

Body == Tail(last.before)

RECURSIVE Escaped(_, _)

\* Character i of s stands behind an escape: behind a backslash that is not
\* itself behind an escape.
Escaped(s, i) == i > 1 /\ s[i - 1] = "\\" /\ ~Escaped(s, i - 1)

\* The unescaped quotes q of s, and the escapes of s that escape neither a
\* backslash nor q.
Closings(s, q) == {i \in 1..Len(s) : s[i] = q /\ ~Escaped(s, i)}

BadEscapes(s, q) ==
    {i \in 2..Len(s) : Escaped(s, i) /\ s[i] # "\\" /\ s[i] # q}

Least(S) == CHOOSE i \in S : \A j \in S : i <= j

RECURSIVE Unescape(_)

\* s with every escaped character in the place of its escape.
Unescape(s) ==
    IF s = <<>> THEN <<>>
    ELSE IF Head(s) = "\\" /\ Len(s) > 1 THEN <<s[2]>> \o Unescape(From(s, 3))
    ELSE <<Head(s)>> \o Unescape(Tail(s))

\* The last call met a quoted string that closes, with no escape but of the
\* backslash and of its quote before the closing quote.
ClosedQuoted ==
    /\ last.before # <<>>
    /\ is_quoted_string_start(Quote)
    /\ Closings(Body, Quote) # {}
    /\ \A i \in BadEscapes(Body, Quote) : i > Least(Closings(Body, Quote))

\* C13: read_string and read_quoted_string on a quoted string that closes
\* return the text between the quotes with \\ read as \ and \q as q, leave
\* the reader right behind the closing quote, and borrow when the text has no
\* backslash and allocate when it has one.
C13_QuotedString ==
    (last.op \in {"read_string", "read_quoted_string"} /\ ClosedQuoted) =>
        LET close   == Least(Closings(Body, Quote))
            content == UpTo(Body, close - 1)
        IN /\ last.result.kind = "ok"
           /\ last.result.value.str = Unescape(content)
           /\ remaining = From(Body, close + 1)
           /\ last.result.value.owned <=> (\E i \in 1..Len(content) : content[i] = "\\")

\* An owned string has been read in which both escapes and the other quote
\* occur, with text left behind the closing quote.
C13_Witness ==
    /\ last.op \in {"read_string", "read_quoted_string"}
    /\ ClosedQuoted
    /\ last.result.kind = "ok"
    /\ last.result.value.owned
    /\ \E i, j, k \in 1..Len(last.result.value.str) :
          /\ last.result.value.str[i] = Quote
          /\ last.result.value.str[j] = "\\"
          /\ is_quoted_string_start(last.result.value.str[k])
          /\ last.result.value.str[k] # Quote
    /\ remaining # <<>>

\* C14: read_quoted_string returns the empty string on an empty remaining;
\* fails ReaderExpectedStartOfQuote when the first character is no quote;
\* fails ReaderInvalidEscape(x) when, before any closing quote, a backslash
\* escapes an x that is neither the backslash nor the opening quote; fails
\* ReaderExpectedEndOfQuote when there is neither.
C14_QuotedStringErrors ==
    last.op = "read_quoted_string" =>
        IF last.before = <<>>
        THEN last.result.kind = "ok" /\ last.result.value.str = <<>>
        ELSE IF Quote # "\"" /\ Quote # "'"
        THEN last.result.kind = "err"
             /\ Error.error_type = ErrorType("ReaderExpectedStartOfQuote", <<>>)
        ELSE LET bad   == BadEscapes(Body, Quote)
                 close == Closings(Body, Quote)
             IN /\ (bad # {} /\ (close = {} \/ Least(bad) < Least(close))) =>
                       /\ last.result.kind = "err"
                       /\ Error.error_type =
                              ErrorType("ReaderInvalidEscape", Body[Least(bad)])
                /\ (bad = {} /\ close = {}) =>
                       /\ last.result.kind = "err"
                       /\ Error.error_type = ErrorType("ReaderExpectedEndOfQuote", <<>>)

\* read_quoted_string has failed on an escape of the other quote, behind a
\* good escape.
C14_Witness ==
    /\ last.op = "read_quoted_string"
    /\ last.result.kind = "err"
    /\ Error.error_type.variant = "ReaderInvalidEscape"
    /\ is_quoted_string_start(Error.error_type.carried)
    /\ \E i \in 2..Len(Body) : Escaped(Body, i) /\ Body[i] = "\\"
                               /\ i < Least(BadEscapes(Body, Quote))

\* The characters of an unquoted string: [0-9A-Za-z_-.+]
Unquoted == Digits \cup Upper \cup Lower \cup {"_", "-", ".", "+"}

\* C15: read_unquoted_string returns, with no error, the longest prefix of
\* remaining made of the characters [0-9A-Za-z_-.+] and leaves the rest:
\* afterwards remaining is empty or begins with another character.
C15_UnquotedString ==
    last.op = "read_unquoted_string" =>
        /\ last.result.kind = "ok"
        /\ last.result.value \o remaining = last.before
        /\ \A i \in 1..Len(last.result.value) : last.result.value[i] \in Unquoted
        /\ remaining = <<>> \/ Head(remaining) \notin Unquoted

\* An unquoted string with a '+' has been read up to a character that ends
\* it.
C15_Witness ==
    /\ last.op = "read_unquoted_string"
    /\ \E i \in 1..Len(last.result.value) : last.result.value[i] = "+"
    /\ remaining # <<>>

\* C16: read_boolean reads a string as read_string does; "true" gives true
\* and "false" gives false, with the reader behind the string; any other
\* string fails ReaderInvalidBool with that string and the reader where it
\* was before the call.
C16_Boolean ==
    (last.op = "read_boolean" /\ read_string(Before).kind = "ok") =>
        LET s == read_string(Before)
        IN IF s.value.str = <<"t", "r", "u", "e">>
           THEN last.result.kind = "ok" /\ last.result.value = TRUE
                /\ remaining = s.remaining
           ELSE IF s.value.str = <<"f", "a", "l", "s", "e">>
           THEN last.result.kind = "ok" /\ last.result.value = FALSE
                /\ remaining = s.remaining
           ELSE /\ last.result.kind = "err"
                /\ Error.error_type.variant = "ReaderInvalidBool"
                /\ Error.error_type.carried.str = s.value.str
                /\ remaining = last.before

\* read_boolean has refused a string in the middle of the input and has gone
\* back to its start.
C16_Witness ==
    /\ last.op = "read_boolean"
    /\ last.result.kind = "err"
    /\ Error.error_type.variant = "ReaderInvalidBool"
    /\ Error.error_type.carried.str # <<>>
    /\ CursorBefore > 0

\* The type read_int, read_long, read_float and read_double parse at, and
\* the name of the type in the errors of each.
NumberType ==
    [read_int |-> "i32", read_long |-> "i64", read_float |-> "f32", read_double |-> "f64"]

ErrorName ==
    [read_int |-> "Int", read_long |-> "Long", read_float |-> "Float",
     read_double |-> "Double"]

\* C17: read_int, read_long, read_float and read_double take the longest
\* prefix of remaining made of [0-9.-]: an empty prefix fails ReaderExpected
\* of the operation's type; a prefix that does not parse at the type (an
\* integer out of its range included) fails ReaderInvalid of the operation's
\* type with the prefix; otherwise the value is returned and exactly the
\* prefix is consumed.
C17_ReadNumber ==
    last.op \in DOMAIN NumberType =>
        LET prefix == NumberPrefix(last.before)
            parsed == from_str(NumberType[last.op], prefix)
        IN IF prefix = <<>>
           THEN /\ last.result.kind = "err"
                /\ Error.error_type.variant = "ReaderExpected" \o ErrorName[last.op]
           ELSE IF ~parsed[1]
           THEN /\ last.result.kind = "err"
                /\ Error.error_type =
                       ErrorType("ReaderInvalid" \o ErrorName[last.op], prefix)
           ELSE /\ last.result.kind = "ok"
                /\ last.result.value = parsed[2]
                /\ last.before = prefix \o remaining

\* C18: an error returned by an operation of the reader has a context, with
\* the reader's input and the reader's cursor at the return.
C18_ErrorHasContext ==
    last.result.kind = "err" =>
        Error.context = <<[input |-> input, cursor |-> CursorNow]>>

IsSuffix(s, t) == Len(s) <= Len(t) /\ From(t, Len(t) - Len(s) + 1) = s

\* What every call leaves: remaining is a suffix of input, the cursor
\* len(input) - len(remaining) lies in 0..len(input), and a read that
\* succeeds has not moved the cursor back.
ReaderInvariant ==
    /\ IsSuffix(remaining, input)
    /\ CursorNow \in 0..len(input)
    /\ (last.op \in ReadOps \cup {"parse", "read_string_until"} /\ last.result.kind = "ok")
           => CursorNow >= CursorBefore

\* C19 as stated: the reader's invariant, and set_cursor(c) with
\* 0 <= c <= len(input) makes the cursor c.
C19_CursorAnyOffset ==
    /\ ReaderInvariant
    /\ (last.op = "set_cursor" /\ last.arg \in 0..len(input)) =>
           (last.result.kind = "ok" /\ CursorNow = last.arg)

\* C19, amended: the reader's invariant, and set_cursor(c) with c the byte
\* offset of a character boundary of input (0 and len(input) are two) makes
\* the cursor c.
C19_CursorOnBoundary ==
    /\ ReaderInvariant
    /\ (last.op = "set_cursor" /\ Boundary(input, last.arg) # {}) =>
           (last.result.kind = "ok" /\ CursorNow = last.arg)

\* set_cursor has moved the reader back, behind a character of three bytes,
\* after a read had moved it on.
C19_Witness ==
    /\ last.op = "set_cursor"
    /\ last.result.kind = "ok"
    /\ CursorNow = last.arg
    /\ 0 < CursorNow /\ CursorNow < CursorBefore
    /\ Len(input) - Len(remaining) < CursorNow

\* ========================================================= error rendering

CONTEXT_AMOUNT == 10

\* &input[from..to] by byte offsets: <<TRUE, the slice>>, or <<FALSE>> for
\* the panic of a slice that starts behind its end, ends behind the text or
\* cuts a character.
Slice(s, from, to) ==
    IF from > to \/ Boundary(s, from) = {} \/ Boundary(s, to) = {}
    THEN <<FALSE>>
    ELSE <<TRUE, SubSeq(s, CHOOSE p \in Boundary(s, from) : TRUE,
                           (CHOOSE p \in Boundary(s, to) : TRUE) - 1)>>

\* CommandSyntaxError::context.  cursor - CONTEXT_AMOUNT is a subtraction of
\* usize: below zero it panics where overflow is checked, and elsewhere it
\* wraps to a number near 2^64, which 0.max(..) keeps and the slice refuses,
\* as it starts behind its end.  A rendered text is the sequence of its
\* pieces.
CommandSyntaxError_context(e) ==
    IF e.context = <<>>
    THEN [kind |-> "none"]
    ELSE LET c     == e.context[1]
             dots  == IF c.cursor > CONTEXT_AMOUNT THEN <<"...">> ELSE <<>>
             slice == Slice(c.input, c.cursor - CONTEXT_AMOUNT, c.cursor)
         IN IF c.cursor < CONTEXT_AMOUNT \/ ~slice[1]
            THEN [kind |-> "panic"]
            ELSE [kind |-> "some", text |-> dots \o slice[2] \o <<"<--[HERE]">>]

\* Display for CommandSyntaxError: the message of the error type stands for
\* itself.
fmt(e) ==
    LET ctx == CommandSyntaxError_context(e)
    IN CASE ctx.kind = "panic" -> [kind |-> "panic"]
         [] ctx.kind = "some"  ->
                [kind |-> "ok",
                 text |-> <<e.error_type, " at position ", e.context[1].cursor, ": ">>
                              \o ctx.text]
         [] ctx.kind = "none"  -> [kind |-> "ok", text |-> <<e.error_type>>]

\* Longest context input made of the letters of ContextAlphabet.
MaxContext == 11

ContextAlphabet == {"a", "b"}

RECURSIVE ContextStrings(_)

ContextStrings(n) ==
    IF n = 0 THEN {<<>>}
    ELSE LET shorter == ContextStrings(n - 1)
         IN shorter \cup {Append(t, c) : t \in shorter, c \in ContextAlphabet}

\* The inputs errors point into, those of the reader's longer texts among
\* them.
ContextInputs == ContextStrings(MaxContext) \cup Texts

\* The byte offsets errors point at.
Cursors == 0..(MaxContext + CONTEXT_AMOUNT)

InitError == Init /\ ReaderIdle /\ ErrorIdle /\ SuggestIdle

\* CommandSyntaxError::new(error_type): the error is made, nothing is
\* rendered yet.
New(variant) ==
    /\ shown = <<>>
    /\ shown' = [call |-> "new", error |-> new(ErrorType(variant, <<>>)), result |-> <<>>]
    /\ UNCHANGED <<treeVars, readerVars, suggestVars>>

\* CommandSyntaxError::with_context(error_type, StringReaderContext { input,
\* cursor }), on any of the inputs with the cursor within it.
WithContext(variant) ==
    /\ shown = <<>>
    /\ \E inp \in ContextInputs, c \in Cursors :
           /\ c <= len(inp)
           /\ shown' = [call |-> "with_context",
                        error |-> with_context(ErrorType(variant, <<>>),
                                               [input |-> inp, cursor |-> c]),
                        result |-> <<>>]
    /\ UNCHANGED <<treeVars, readerVars, suggestVars>>

\* error.context()
RenderContext ==
    /\ shown # <<>>
    /\ shown.call \in {"new", "with_context"}
    /\ shown' = [shown EXCEPT !.call = "context",
                              !.result = CommandSyntaxError_context(shown.error)]
    /\ UNCHANGED <<treeVars, readerVars, suggestVars>>

\* error.to_string()
Display ==
    /\ shown # <<>>
    /\ shown.call \in {"new", "with_context"}
    /\ shown' = [shown EXCEPT !.call = "to_string", !.result = fmt(shown.error)]
    /\ UNCHANGED <<treeVars, readerVars, suggestVars>>

NextError ==
    \/ New("ReaderExpectedInt")
    \/ WithContext("ReaderExpectedStartOfQuote")
    \/ RenderContext
    \/ Display

SpecError == InitError /\ [][NextError]_vars

\* The context the claim gives an error with the context (input, cursor):
\* the at most CONTEXT_AMOUNT bytes before the cursor, behind "..." when
\* there are more, before "<--[HERE]".
ExpectedContext(c) ==
    LET from == IF c.cursor > CONTEXT_AMOUNT THEN c.cursor - CONTEXT_AMOUNT ELSE 0
    IN (IF c.cursor > CONTEXT_AMOUNT THEN <<"...">> ELSE <<>>)
           \o Slice(c.input, from, c.cursor)[2] \o <<"<--[HERE]">>

\* C20: for an error with the context (input, cursor), 0 <= cursor <=
\* len(input), context() is input[max(0, cursor - 10)..cursor] and then
\* "<--[HERE]", behind "..." exactly when cursor > 10, and Display gives
\* "<error_type> at position <cursor>: <context>"; an error without context
\* displays as "<error_type>".  (Stated for the cursors whose slice cuts no
\* character.)
C20_RenderedContext ==
    (shown # <<>> /\ shown.call \in {"context", "to_string"}) =>
        LET e == shown.error
        IN IF e.context = <<>>
           THEN /\ shown.call = "context" => shown.result.kind = "none"
                /\ shown.call = "to_string" =>
                       shown.result = [kind |-> "ok", text |-> <<e.error_type>>]
           ELSE LET c == e.context[1]
                    from == IF c.cursor > CONTEXT_AMOUNT
                            THEN c.cursor - CONTEXT_AMOUNT ELSE 0
                IN Slice(c.input, from, c.cursor)[1] =>
                       /\ shown.call = "context" =>
                              shown.result = [kind |-> "some", text |-> ExpectedContext(c)]
                       /\ shown.call = "to_string" =>
                              shown.result =
                                  [kind |-> "ok",
                                   text |-> <<e.error_type, " at position ", c.cursor, ": ">>
                                                \o ExpectedContext(c)]

\* ============================================================= Suggestions

\* A StringRange is a Range<usize> of byte offsets.
StringRange(start, end) == [start |-> start, end |-> end]

\* A Suggestion; int and tooltip are Options: <<>> is None, <<x>> is Some(x).
Suggestion(range, text, int, tooltip) ==
    [range |-> range, text |-> text, int |-> int, tooltip |-> tooltip]

Suggestions(range, suggestions) == [range |-> range, suggestions |-> suggestions]

\* Suggestions::EMPTY
EMPTY == Suggestions(StringRange(0, 0), <<>>)

\* The outcome of a call: the value it returned, or a panic.
Returned(v) == [kind |-> "ok", value |-> v]

Panics == [kind |-> "panic"]

RECURSIVE Decimal(_)

Decimal(n) ==
    IF n < 10
    THEN <<DigitSeq[n + 1]>>
    ELSE Append(Decimal(n \div 10), DigitSeq[(n % 10) + 1])

\* i32::to_string
to_string(int) == IF int < 0 THEN <<"-">> \o Decimal(0 - int) ELSE Decimal(int)

\* Suggestion::new_text: the other fields are Default::default()
new_text(range, text) == Suggestion(range, text, <<>>, <<>>)

new_text_with_tooltip(range, text, tooltip) ==
    Suggestion(range, text, <<>>, <<tooltip>>)

new_int(range, int) == Suggestion(range, to_string(int), <<int>>, <<>>)

new_int_with_tooltip(range, int, tooltip) ==
    Suggestion(range, to_string(int), <<int>>, <<tooltip>>)

\* The piece &s[from..to] a push_str appends; nothing is sliced when the
\* condition before it is false.
Piece(taken, s, from, to) == IF taken THEN Slice(s, from, to) ELSE <<TRUE, <<>>>>

\* expand_owned that carries the integer over to the expanded suggestion.
expand_owned_KeepsInt(self, cmd, range) ==
    IF range = self.range
    THEN Returned(self)
    ELSE LET before == Piece(range.start < self.range.start,
                             cmd, range.start, self.range.start)
             after  == Piece(range.end > self.range.end,
                             cmd, self.range.end, range.end)
         IN IF ~before[1] \/ ~after[1]
            THEN Panics
            ELSE Returned(Suggestion(range, before[2] \o self.text \o after[2],
                                     self.int, self.tooltip))

\* Suggestion::expand_owned
expand_owned(self, cmd, range) ==
    IF range = self.range
    THEN Returned(self)
    ELSE LET before == Piece(range.start < self.range.start,
                             cmd, range.start, self.range.start)
             after  == Piece(range.end > self.range.end,
                             cmd, self.range.end, range.end)
         IN IF ~before[1] \/ ~after[1]
            THEN Panics                     \* &command[..] off a boundary
            ELSE Returned(Suggestion(range, before[2] \o self.text \o after[2],
                                     <<>>, self.tooltip))

UpperSeq == <<"A", "B", "C", "D", "E", "F", "G", "H", "I", "J", "K", "L", "M",
              "N", "O", "P", "Q", "R", "S", "T", "U", "V", "W", "X", "Y", "Z">>

LowerSeq == <<"a", "b", "c", "d", "e", "f", "g", "h", "i", "j", "k", "l", "m",
              "n", "o", "p", "q", "r", "s", "t", "u", "v", "w", "x", "y", "z">>

IndexOf(seq, c) == CHOOSE i \in 1..Len(seq) : seq[i] = c

\* char::to_lowercase, for the characters of the model
char_to_lowercase(c) == IF c \in Upper THEN LowerSeq[IndexOf(UpperSeq, c)] ELSE c

\* str::to_lowercase
to_lowercase(s) == [i \in 1..Len(s) |-> char_to_lowercase(s[i])]

\* The code point of a character of the model.
CodePoint(c) ==
    CASE c \in Digits   -> 48 + DigitValue(c)
      [] c \in Upper    -> 64 + IndexOf(UpperSeq, c)
      [] c \in Lower    -> 96 + IndexOf(LowerSeq, c)
      [] c = "-"        -> 45
      [] c = "U+2705"   -> 9989

RECURSIVE str_cmp(_, _)

\* Ord for str: byte by byte, which for UTF-8 is code point by code point.
str_cmp(a, b) ==
    IF a = <<>> THEN (IF b = <<>> THEN "Equal" ELSE "Less")
    ELSE IF b = <<>> THEN "Greater"
    ELSE IF CodePoint(Head(a)) < CodePoint(Head(b)) THEN "Less"
    ELSE IF CodePoint(Head(a)) > CodePoint(Head(b)) THEN "Greater"
    ELSE str_cmp(Tail(a), Tail(b))

\* Suggestion::cmp_ignore_case
cmp_ignore_case(self, other) ==
    str_cmp(to_lowercase(self.text), to_lowercase(other.text))

\* The place of x in a sorted v: behind every element that is not greater.
Place(v, x) ==
    LET k == Cardinality({i \in 1..Len(v) : cmp_ignore_case(v[i], x) # "Greater"})
    IN SubSeq(v, 1, k) \o <<x>> \o SubSeq(v, k + 1, Len(v))

RECURSIVE sort_by(_)

\* sorted.sort_by(Suggestion::cmp_ignore_case): a stable sort, elements that
\* compare Equal keep their order.
sort_by(v) ==
    IF v = <<>>
    THEN <<>>
    ELSE Place(sort_by(SubSeq(v, 1, Len(v) - 1)), v[Len(v)])

Greatest(S) == CHOOSE x \in S : \A y \in S : y <= x

\* texts.insert(suggestion.expand_owned(command, range.clone())) for every
\* candidate: the outcomes of the calls of expand_owned.
Expansions(cmd, suggestions, range) ==
    {expand_owned(suggestions[i], cmd, range) : i \in 1..Len(suggestions)}

\* The range create computes for a Vec that is not empty.
Covering(suggestions) ==
    StringRange(Least({suggestions[i].range.start : i \in 1..Len(suggestions)}),
                Greatest({suggestions[i].range.end : i \in 1..Len(suggestions)}))

\* The HashSet texts of create, when no expansion panics.
HashSetOf(cmd, suggestions) ==
    {e.value : e \in Expansions(cmd, suggestions, Covering(suggestions)) \ {Panics}}

\* The orders in which a HashSet may hand out its elements: its hasher is
\* keyed at random (RandomState), so every order is one a run may see.
IterationOrders(S) ==
    {q \in [1..Cardinality(S) -> S] : {q[i] : i \in 1..Cardinality(S)} = S}

\* create without the set: every expanded candidate is kept.
create_KeepsDuplicates(cmd, suggestions, into_iter) ==
    IF suggestions = <<>>
    THEN Returned(EMPTY)
    ELSE LET start == Least({suggestions[i].range.start : i \in 1..Len(suggestions)})
             end   == Greatest({suggestions[i].range.end : i \in 1..Len(suggestions)})
             range == StringRange(start, end)
             each  == [i \in 1..Len(suggestions) |->
                          expand_owned(suggestions[i], cmd, range)]
         IN IF \E i \in 1..Len(each) : each[i] = Panics
            THEN Panics
            ELSE Returned(Suggestions(range,
                     sort_by([i \in 1..Len(each) |-> each[i].value])))

\* Suggestions::create; into_iter is the order in which texts.into_iter()
\* hands out the set.
create(cmd, suggestions, into_iter) ==
    IF suggestions = <<>>
    THEN Returned(EMPTY)
    ELSE LET start == Least({suggestions[i].range.start : i \in 1..Len(suggestions)})
             end   == Greatest({suggestions[i].range.end : i \in 1..Len(suggestions)})
             range == StringRange(start, end)
         IN IF Panics \in Expansions(cmd, suggestions, range)
            THEN Panics
            ELSE Returned(Suggestions(range, sort_by(into_iter)))

\* The orders texts.into_iter() may take in create(cmd, suggestions).
IntoIter(cmd, suggestions) ==
    IF suggestions = <<>>
       \/ Panics \in Expansions(cmd, suggestions, Covering(suggestions))
    THEN {<<>>}
    ELSE IterationOrders(HashSetOf(cmd, suggestions))

\* apply that leaves out what follows the range.
apply_NoTail(self, inp) ==
    IF self.range.start = 0 /\ self.range.end = len(inp)
    THEN Returned(self.text)
    ELSE LET before == Piece(self.range.start > 0, inp, 0, self.range.start)
         IN IF ~before[1]
            THEN Panics
            ELSE Returned(before[2] \o self.text)

\* Suggestion::apply
apply(self, inp) ==
    LET input_len == len(inp)
    IN IF self.range.start = 0 /\ self.range.end = input_len
       THEN Returned(self.text)
       ELSE LET before == Piece(self.range.start > 0, inp, 0, self.range.start)
                after  == Piece(self.range.end < input_len,
                                inp, self.range.end, input_len)
            IN IF ~before[1] \/ ~after[1]
               THEN Panics                  \* &input[..] off a boundary
               ELSE Returned(before[2] \o self.text \o after[2])

\* ------------------------------------------------------------------- state

\* Largest number of candidates handed to create.
MaxSuggestions == 2

\* The command lines: two ASCII characters, and the check mark of the
\* tests, one character of three bytes.
Commands == {<<"a", "B">>, <<"U+2705">>}

\* The texts suggested without and with a tooltip, the integers and the
\* tooltips.
PlainTexts == {<<"a">>, <<"A">>, <<"B">>}

TooltipTexts == {<<"a">>}

Ints == {1}

Tooltips == {<<"t">>}

\* The ranges of byte offsets into cmd, start <= end <= len.
RangesOf(cmd) ==
    {StringRange(s, e) : <<s, e>> \in {x \in (0..len(cmd)) \X (0..len(cmd)) : x[1] <= x[2]}}

\* No suggestion made yet for any of the command lines.
InitSuggest ==
    /\ Init
    /\ ReaderIdle
    /\ ErrorIdle
    /\ line \in Commands
    /\ candidates = <<>>
    /\ created = <<>>
    /\ recreated = <<>>
    /\ applied = <<>>

\* A suggestion is pushed onto the Vec that create will get.
Push(s) ==
    /\ created = <<>>
    /\ applied = <<>>
    /\ Len(candidates) < MaxSuggestions
    /\ candidates' = Append(candidates, s)
    /\ UNCHANGED <<line, created, recreated, applied, treeVars, readerVars, shown>>

NewText(range, text) == Push(new_text(range, text))

NewTextWithTooltip(range, text, tooltip) ==
    Push(new_text_with_tooltip(range, text, tooltip))

NewInt(range, int) == Push(new_int(range, int))

NewIntWithTooltip(range, int, tooltip) ==
    Push(new_int_with_tooltip(range, int, tooltip))

\* Suggestions::create(line, candidates)
Create ==
    /\ created = <<>>
    /\ applied = <<>>
    /\ \E into_iter \in IntoIter(line, candidates) :
           created' = create(line, candidates, into_iter)
    /\ UNCHANGED <<line, candidates, recreated, applied, treeVars, readerVars, shown>>

\* Suggestions::create(line, s.suggestions) for the Suggestions s that
\* create returned.
CreateAgain ==
    /\ created # <<>>
    /\ recreated = <<>>
    /\ created.kind = "ok"
    /\ \E into_iter \in IntoIter(line, created.value.suggestions) :
           recreated' = create(line, created.value.suggestions, into_iter)
    /\ UNCHANGED <<line, candidates, created, applied, treeVars, readerVars, shown>>

\* candidates[i].apply(line)
Apply(i) ==
    /\ created = <<>>
    /\ applied = <<>>
    /\ i \in 1..Len(candidates)
    /\ applied' = [suggestion |-> candidates[i],
                   outcome |-> apply(candidates[i], line)]
    /\ UNCHANGED <<line, candidates, created, recreated, treeVars, readerVars, shown>>

NextSuggest ==
    \/ \E range \in RangesOf(line), text \in PlainTexts : NewText(range, text)
    \/ \E range \in RangesOf(line), text \in TooltipTexts, tooltip \in Tooltips :
           NewTextWithTooltip(range, text, tooltip)
    \/ \E range \in RangesOf(line), int \in Ints : NewInt(range, int)
    \/ \E range \in RangesOf(line), int \in Ints, tooltip \in Tooltips :
           NewIntWithTooltip(range, int, tooltip)
    \/ Create
    \/ CreateAgain
    \/ \E i \in 1..MaxSuggestions : Apply(i)

SpecSuggest == InitSuggest /\ [][NextSuggest]_vars

\* ------------------------------------------------------------------ claims

\* A range lies within cmd: start <= end, both offsets of cmd that cut no
\* character, so that cmd[start..end] is a str.
Within(cmd, range) ==
    /\ range.start <= range.end
    /\ Boundary(cmd, range.start) # {}
    /\ Boundary(cmd, range.end) # {}

\* cmd[from..to]
Sub(cmd, from, to) == Slice(cmd, from, to)[2]

AllWithin == \A i \in 1..Len(candidates) : Within(line, candidates[i].range)

\* [min start, max end) over the candidates.
Tightest ==
    LET starts == {candidates[i].range.start : i \in 1..Len(candidates)}
        ends   == {candidates[i].range.end : i \in 1..Len(candidates)}
    IN StringRange(CHOOSE a \in starts : \A x \in starts : a <= x,
                   CHOOSE b \in ends : \A x \in ends : x <= b)

\* What a candidate is to become in the range to: itself when that is its
\* range, and otherwise the text of the command line before it, its text,
\* the text of the command line behind it, with its tooltip and no integer.
Expanded(s, to) ==
    IF s.range = to
    THEN s
    ELSE Suggestion(to,
                    Sub(line, to.start, s.range.start) \o s.text
                        \o Sub(line, s.range.end, to.end),
                    <<>>, s.tooltip)

Elements(v) == {v[i] : i \in 1..Len(v)}

\* C21: create on no candidates returns EMPTY; on candidates with ranges
\* within the command line it returns the range [min start, max end), every
\* suggestion it returns has that range, and a candidate of another range
\* is among them with the command line's text around its own, its tooltip
\* and no integer.
C21_CreateExpands ==
    created # <<>> =>
        /\ candidates = <<>> => created = Returned(EMPTY)
        /\ (candidates # <<>> /\ AllWithin) =>
               /\ created.kind = "ok"
               /\ created.value.range = Tightest
               /\ \A j \in 1..Len(created.value.suggestions) :
                      created.value.suggestions[j].range = Tightest
               /\ \A i \in 1..Len(candidates) :
                      candidates[i].range # Tightest =>
                          Expanded(candidates[i], Tightest)
                              \in Elements(created.value.suggestions)

\* create has expanded an integer suggestion with a tooltip that lay
\* strictly inside the range of the candidates: text of the command line
\* stands before and behind its own.
C21_Witness ==
    /\ created # <<>>
    /\ created.kind = "ok"
    /\ AllWithin
    /\ \E i \in 1..Len(candidates) :
          /\ candidates[i].int # <<>>
          /\ candidates[i].tooltip # <<>>
          /\ candidates[i].range.start > created.value.range.start
          /\ candidates[i].range.end < created.value.range.end
          /\ Expanded(candidates[i], created.value.range)
                 \in Elements(created.value.suggestions)

\* C22: the list create returns holds every expanded candidate, each once
\* (no two elements agree in range, text, integer and tooltip), in an order
\* in which the lower-cased texts never decrease.
C22_CreateSortedSet ==
    (created # <<>> /\ created.kind = "ok" /\ AllWithin) =>
        LET v == created.value.suggestions
        IN /\ \A i, j \in 1..Len(v) : v[i] = v[j] => i = j
           /\ Elements(v) = {Expanded(candidates[k], created.value.range) :
                                 k \in 1..Len(candidates)}
           /\ \A i, j \in 1..Len(v) :
                  i < j => str_cmp(to_lowercase(v[i].text),
                                   to_lowercase(v[j].text)) # "Greater"

\* create has returned two suggestions in an order that only the lower
\* case gives: as they are, the first text is the greater one.
C22_Witness ==
    /\ created # <<>>
    /\ created.kind = "ok"
    /\ AllWithin
    /\ Len(created.value.suggestions) = 2
    /\ str_cmp(created.value.suggestions[1].text,
               created.value.suggestions[2].text) = "Greater"
    /\ str_cmp(to_lowercase(created.value.suggestions[1].text),
               to_lowercase(created.value.suggestions[2].text)) = "Less"

\* C23: create on the suggestions create returned gives the same range and
\* the same list in the same order, for candidates with ranges within the
\* command line, also when texts are equal but for case or the suggestions
\* differ in the tooltip only.
C23_CreateIdempotent ==
    (recreated # <<>> /\ AllWithin) => recreated = created

\* C24: apply of a suggestion with the range [a, b) within the input gives
\* input[..a], the suggestion's text and input[b..]; when input[a..b] is
\* the suggestion's text, it gives the input.
C24_ApplyPatches ==
    applied # <<>> =>
        LET s == applied.suggestion
        IN Within(line, s.range) =>
               /\ applied.outcome =
                      Returned(Sub(line, 0, s.range.start) \o s.text
                                   \o Sub(line, s.range.end, len(line)))
               /\ Sub(line, s.range.start, s.range.end) = s.text =>
                      applied.outcome = Returned(line)

\* apply has put a text in place of the same text behind the first
\* character of the input, and returned the input.
C24_Witness ==
    /\ applied # <<>>
    /\ Within(line, applied.suggestion.range)
    /\ applied.suggestion.range.start > 0
    /\ applied.suggestion.range.start < applied.suggestion.range.end
    /\ Sub(line, applied.suggestion.range.start, applied.suggestion.range.end)
           = applied.suggestion.text
    /\ applied.outcome = Returned(line)

====
